---- MODULE Spec2Model ----
(***************************************************************************)
(* Task scheduler (sammayank765/task-scheduler): the task store            *)
(* (DatabaseManager), the submission validator (TaskValidator), the POST   *)
(* /tasks handler and the polling executor (TaskExecutor) with its crash   *)
(* recovery.                                                               *)
(*                                                                         *)
(* Encoding of JavaScript / SQL values:                                    *)
(*   - a task id is an integer 1..MaxTasks whose order is the              *)
(*     lexicographic order of the id strings; EmptyId (0) is the empty,    *)
(*     missing or non-string id, which `!x || typeof x !== 'string'`       *)
(*     rejects;                                                            *)
(*   - a timestamp is a value of the clock `now` (Date.now()), which is    *)
(*     at least 1; NoTime (0) is SQL NULL / undefined, which insertTask    *)
(*     (`x || null`) and rowToTask (`x || undefined`) conflate with 0;     *)
(*   - NoError ("") is the NULL error column (`task.error || null`);       *)
(*   - the `updates` argument of updateTaskStatus is a record holding      *)
(*     exactly the fields whose value is not `undefined`: the method       *)
(*     tests every field with `!== undefined`.                             *)
(*                                                                         *)
(* Scheduling: Node runs every callback to completion and better-sqlite3   *)
(* is synchronous, so a handler, a timer callback, and executeTask up to   *)
(* and after its one await are each one step.                              *)
(*                                                                         *)
(* The clock: Spec and StoreSpec follow the program within one reading of  *)
(* Date.now(); no action of theirs advances `now`. Clock values are only   *)
(* stored: with a clock that never runs backwards the created_at order of  *)
(* the rows is their insertion order, which getAllTasks and the stable     *)
(* sort of scheduleNextTasks keep, so no step depends on the values.       *)
(*                                                                         *)
(* The runner: `await this.sleep(duration_ms)` ends after any delay; the   *)
(* try block of executeTask then either finishes or throws before its      *)
(* write (the store calls in it can throw), which runs the catch block.    *)
(*                                                                         *)
(* Specifications: Spec is the whole program (submissions, start, stop,    *)
(* ticks, queued passes, runner outcomes, process restarts); LiveSpec is   *)
(* the executor left running, with its callbacks fair; SubmitSpec is the   *)
(* POST handler alone over every request body, one request at a time;      *)
(* StoreSpec and InsertSpec are clients of DatabaseManager alone.          *)
(***************************************************************************)
EXTENDS Integers, Sequences, FiniteSets, TLC

\* ---------------------------------------------------------------- bounds
MaxTasks == 3
MaxDeps == 2
MaxStarts == 2
MaxActors == 2
MaxVersion == 2
MaxRows == 2
maxConcurrentTasks == 2

\* ------------------------------------------------------------- constants
EmptyId == 0
NoTime == 0

NoError == ""
InterruptedError == "Task was interrupted by system restart"
RunnerError == "Unknown error"

QUEUED == "QUEUED"
RUNNING == "RUNNING"
COMPLETED == "COMPLETED"
FAILED == "FAILED"
WAITING == "WAITING"

TaskStatus == {QUEUED, RUNNING, COMPLETED, FAILED, WAITING}

Ids == 1..MaxTasks
Actors == 1..MaxActors

VARIABLES
  tasks,             \* the tasks table: stored id -> row
  isRunning,         \* TaskExecutor.isRunning
  schedulerInterval, \* TaskExecutor.schedulerInterval is set (not null)
  runningTasks,      \* TaskExecutor.runningTasks
  executing,         \* id -> number of executeTask calls suspended in sleep
  immediates,        \* pending setImmediate(scheduleNextTasks) callbacks
  now,               \* Date.now()
  starts,            \* number of start() calls that ran (bounded by MaxStarts)
  held,              \* store client -> the (id, version) it read and has
                     \* not yet used in an updateTaskStatus call
  lastCall,          \* the last updateTaskStatus call of a store client
  won,               \* id -> version -> calls expecting it that claimed
  request,           \* the last recorded call: a POST /tasks body, or the
                     \* task handed to insertTask by a store client
  response,          \* what that call returned
  stopped            \* stop() has run since the process began

vars == <<tasks, isRunning, schedulerInterval, runningTasks, executing,
          immediates, now, starts, held, lastCall, won, request, response,
          stopped>>

\* ------------------------------------------------------------ sequences
Range(s) == {s[i] : i \in 1..Len(s)}

SeqsUpTo(S, n) == UNION {[1..k -> S] : k \in 0..n}

Take(s, n) == SubSeq(s, 1, IF n < Len(s) THEN n ELSE Len(s))

\* `const x = value; ... F(x) ...`: value is computed once, F applied to it
Const(value, F(_)) == CHOOSE result \in {F(x) : x \in {value}} : TRUE

\* ============================================================== the store
Stored == DOMAIN tasks

\* DatabaseManager.getTask / getTaskWithVersion: the row exists
hasTask(db, taskId) == taskId \in DOMAIN db

\* DatabaseManager.getTaskWithVersion(taskId).version
getTaskWithVersion(db, taskId) == db[taskId].version

\* fault: INSERT OR REPLACE, a stored id's row is overwritten
insertTask_replacing(db, task) ==
  [inserted |-> TRUE,
   db |-> [id \in DOMAIN db \cup {task.id} |->
             IF id = task.id
               THEN [id |-> task.id,
                     type |-> task.type,
                     duration_ms |-> task.duration_ms,
                     dependencies |-> task.dependencies,
                     status |-> task.status,
                     created_at |-> task.created_at,
                     started_at |-> NoTime,
                     completed_at |-> NoTime,
                     error |-> NoError,
                     retry_count |-> 0,
                     version |-> 0,
                     rowid |-> IF id \in DOMAIN db
                                 THEN db[id].rowid
                                 ELSE Cardinality(DOMAIN db) + 1]
               ELSE db[id]]]

\* DatabaseManager.insertTask: the new row, version 0; a stored id violates
\* the PRIMARY KEY (SQLITE_CONSTRAINT) and the method returns false
insertTask(db, task) ==
  IF task.id \in DOMAIN db
    THEN [inserted |-> FALSE, db |-> db]
    ELSE [inserted |-> TRUE,
          db |-> (task.id :> [id |-> task.id,
                              type |-> task.type,
                              duration_ms |-> task.duration_ms,
                              dependencies |-> task.dependencies,
                              status |-> task.status,
                              created_at |-> task.created_at,
                              started_at |-> NoTime,
                              completed_at |-> NoTime,
                              error |-> NoError,
                              retry_count |-> 0,
                              version |-> 0,
                              rowid |-> Cardinality(DOMAIN db) + 1]) @@ db]

\* fault: the SET clause without `version = version + 1`
applyUpdates_keepingVersion(row, newStatus, updates) ==
  [row EXCEPT
     !.status = newStatus,
     !.started_at = IF "started_at" \in DOMAIN updates
                      THEN updates.started_at ELSE @,
     !.completed_at = IF "completed_at" \in DOMAIN updates
                        THEN updates.completed_at ELSE @,
     !.error = IF "error" \in DOMAIN updates THEN updates.error ELSE @,
     !.retry_count = IF "retry_count" \in DOMAIN updates
                       THEN updates.retry_count ELSE @]

\* fault: `created_at = ?` in the SET clause, bound to started_at
applyUpdates_settingCreatedAt(row, newStatus, updates) ==
  [row EXCEPT
     !.status = newStatus,
     !.version = row.version + 1,
     !.created_at = IF "started_at" \in DOMAIN updates
                      THEN updates.started_at + 1 ELSE @,
     !.started_at = IF "started_at" \in DOMAIN updates
                      THEN updates.started_at ELSE @,
     !.completed_at = IF "completed_at" \in DOMAIN updates
                        THEN updates.completed_at ELSE @,
     !.error = IF "error" \in DOMAIN updates THEN updates.error ELSE @,
     !.retry_count = IF "retry_count" \in DOMAIN updates
                       THEN updates.retry_count ELSE @]

\* the SET clause of updateTaskStatus applied to one row
applyUpdates(row, newStatus, updates) ==
  [row EXCEPT
     !.status = newStatus,
     !.version = row.version + 1,
     !.started_at = IF "started_at" \in DOMAIN updates
                      THEN updates.started_at ELSE @,
     !.completed_at = IF "completed_at" \in DOMAIN updates
                        THEN updates.completed_at ELSE @,
     !.error = IF "error" \in DOMAIN updates THEN updates.error ELSE @,
     !.retry_count = IF "retry_count" \in DOMAIN updates
                       THEN updates.retry_count ELSE @]

\* fault: WHERE id = ? alone
matchesRow_anyVersion(db, taskId, currentVersion) == taskId \in DOMAIN db

\* WHERE id = ? AND version = ?
matchesRow(db, taskId, currentVersion) ==
  taskId \in DOMAIN db /\ db[taskId].version = currentVersion

\* DatabaseManager.updateTaskStatus: claimed is `result.changes > 0`
updateTaskStatus(db, taskId, newStatus, currentVersion, updates) ==
  IF matchesRow(db, taskId, currentVersion)
    THEN [claimed |-> TRUE,
          db |-> [db EXCEPT ![taskId] = applyUpdates(@, newStatus, updates)]]
    ELSE [claimed |-> FALSE, db |-> db]

\* ORDER BY created_at ASC; rows of equal created_at come in rowid order
rowBefore(r, q) ==
  r.created_at < q.created_at
    \/ (r.created_at = q.created_at /\ r.rowid <= q.rowid)

RECURSIVE orderRows(_)
orderRows(rows) ==
  IF rows = {} THEN <<>>
  ELSE Const(CHOOSE r \in rows : \A q \in rows : rowBefore(r, q),
             LAMBDA first : <<first>> \o orderRows(rows \ {first}))

\* DatabaseManager.getAllTasks
getAllTasks(db) == orderRows({db[id] : id \in DOMAIN db})

\* DatabaseManager.getTasksByStatus
getTasksByStatus(db, status) ==
  SelectSeq(getAllTasks(db), LAMBDA t : t.status = status)

completedTaskIds(db) == {id \in DOMAIN db : db[id].status = COMPLETED}

\* fault: only QUEUED rows are ready
isReady_queuedOnly(db, task) ==
  /\ task.status = QUEUED
  /\ \A i \in 1..Len(task.dependencies) :
       task.dependencies[i] \in completedTaskIds(db)

\* fault: the filter without the test of the status
isReady_anyStatus(db, task) ==
  \A i \in 1..Len(task.dependencies) :
    task.dependencies[i] \in completedTaskIds(db)

\* fault: the filter without the test of the dependencies
isReady_ignoringDependencies(db, task) == task.status \in {QUEUED, WAITING}

\* the filter of getReadyTasks
isReady(db, task) ==
  /\ task.status \in {QUEUED, WAITING}
  /\ \A i \in 1..Len(task.dependencies) :
       task.dependencies[i] \in completedTaskIds(db)

\* DatabaseManager.getReadyTasks
getReadyTasks(db) == SelectSeq(getAllTasks(db), LAMBDA t : isReady(db, t))

\* fault: QUEUED rows count as orphaned too
getOrphanedTasks_includingQueued(db) ==
  SelectSeq(getAllTasks(db), LAMBDA t : t.status \in {RUNNING, QUEUED})

\* DatabaseManager.getOrphanedTasks
getOrphanedTasks(db) == getTasksByStatus(db, RUNNING)

\* ========================================================== the validator
ErrId == "Task ID is required and must be a string"
ErrType == "Task type is required and must be a string"
ErrDuration == "duration_ms must be a non-negative number"
ErrExists == "Task with ID already exists"
ErrNotArray == "dependencies must be an array"
ErrDepId == "Dependency IDs must be non-empty strings"
ErrSelf == "Task cannot depend on itself"
ErrMissing == "Dependency does not exist"
ErrCycle == "Adding task would create a circular dependency"

Valid == [valid |-> TRUE, error |-> "", dep |-> EmptyId]
Invalid(msg, depId) == [valid |-> FALSE, error |-> msg, dep |-> depId]

\* the request bodies: an invalid id, type, duration or dependency element is
\* EmptyId, "", -1 or EmptyId; a body whose dependencies is not an array
\* carries deps_is_array = FALSE; an absent dependencies is the empty list
TaskInputs ==
  [id : {EmptyId} \cup Ids,
   type : {"", "X"},
   duration_ms : {-1, 0},
   deps_is_array : BOOLEAN,
   dependencies : SeqsUpTo({EmptyId} \cup Ids, MaxDeps)]

\* the bodies that pass the checks of the fields alone, with their
\* dependencies listed in ascending order: an own, missing or stored id
SubmitInputs ==
  {t \in TaskInputs :
     /\ t.id # EmptyId /\ t.type # "" /\ t.duration_ms >= 0 /\ t.deps_is_array
     /\ \A i \in 1..Len(t.dependencies) : t.dependencies[i] # EmptyId
     /\ \A i \in 1..(Len(t.dependencies) - 1) :
          t.dependencies[i] < t.dependencies[i + 1]}

\* every body once: a body whose dependencies is not an array has no list
PostInputs ==
  {t \in TaskInputs : ~t.deps_is_array => t.dependencies = <<>>}

RECURSIVE hasCycle(_, _, _, _), hasCycleFrom(_, _, _, _, _)

\* fault: a node met twice counts as a cycle
hasCycle_revisitIsCycle(current, target, graph, visited) ==
  IF current = target THEN [hit |-> TRUE, visited |-> visited]
  ELSE IF current \in visited THEN [hit |-> TRUE, visited |-> visited]
  ELSE IF current \notin DOMAIN graph
    THEN [hit |-> FALSE, visited |-> visited \cup {current}]
  ELSE hasCycleFrom(graph[current], 1, target, graph, visited \cup {current})

\* TaskValidator.hasCycle: the depth-first search for `target`; `visited` is
\* the one Set shared by the whole search, returned with the answer
hasCycle(current, target, graph, visited) ==
  IF current = target THEN [hit |-> TRUE, visited |-> visited]
  ELSE IF current \in visited THEN [hit |-> FALSE, visited |-> visited]
  ELSE IF current \notin DOMAIN graph
    THEN [hit |-> FALSE, visited |-> visited \cup {current}]
  ELSE hasCycleFrom(graph[current], 1, target, graph, visited \cup {current})

\* the `for (const dep of dependencies)` loop of hasCycle, from index i
hasCycleFrom(deps, i, target, graph, visited) ==
  IF i > Len(deps) THEN [hit |-> FALSE, visited |-> visited]
  ELSE LET r == hasCycle(deps[i], target, graph, visited)
       IN IF r.hit THEN r
          ELSE hasCycleFrom(deps, i + 1, target, graph, r.visited)

\* the graph detectCycle builds: every stored task, then the new one
cycleGraph(db, newTaskId, newDependencies) ==
  (newTaskId :> newDependencies) @@ [id \in DOMAIN db |-> db[id].dependencies]

\* TaskValidator.detectCycle
RECURSIVE detectCycleFrom(_, _, _, _)
detectCycleFrom(db, newTaskId, newDependencies, i) ==
  IF i > Len(newDependencies) THEN Valid
  ELSE IF hasCycle(newDependencies[i], newTaskId,
                   cycleGraph(db, newTaskId, newDependencies), {}).hit
    THEN Invalid(ErrCycle, newDependencies[i])
  ELSE detectCycleFrom(db, newTaskId, newDependencies, i + 1)

detectCycle(db, newTaskId, newDependencies) ==
  detectCycleFrom(db, newTaskId, newDependencies, 1)

\* fault: the loop returns after its first element
RECURSIVE checkDependencies_firstOnly(_, _, _, _)
checkDependencies_firstOnly(db, taskId, dependencies, i) ==
  IF i > Len(dependencies) \/ i > 1 THEN Valid
  ELSE IF dependencies[i] = EmptyId THEN Invalid(ErrDepId, EmptyId)
  ELSE IF dependencies[i] = taskId THEN Invalid(ErrSelf, dependencies[i])
  ELSE IF ~hasTask(db, dependencies[i])
    THEN Invalid(ErrMissing, dependencies[i])
  ELSE checkDependencies_firstOnly(db, taskId, dependencies, i + 1)

\* fault: per element, the existence test before the self-dependency test
RECURSIVE checkDependencies_existenceFirst(_, _, _, _)
checkDependencies_existenceFirst(db, taskId, dependencies, i) ==
  IF i > Len(dependencies) THEN Valid
  ELSE IF dependencies[i] = EmptyId THEN Invalid(ErrDepId, EmptyId)
  ELSE IF ~hasTask(db, dependencies[i])
    THEN Invalid(ErrMissing, dependencies[i])
  ELSE IF dependencies[i] = taskId THEN Invalid(ErrSelf, dependencies[i])
  ELSE checkDependencies_existenceFirst(db, taskId, dependencies, i + 1)

\* the `for (const depId of dependencies)` loop of validateTaskInput, from
\* index i: per element, malformed, then self-dependency, then existence
RECURSIVE checkDependencies(_, _, _, _)
checkDependencies(db, taskId, dependencies, i) ==
  IF i > Len(dependencies) THEN Valid
  ELSE IF dependencies[i] = EmptyId THEN Invalid(ErrDepId, EmptyId)
  ELSE IF dependencies[i] = taskId THEN Invalid(ErrSelf, dependencies[i])
  ELSE IF ~hasTask(db, dependencies[i])
    THEN Invalid(ErrMissing, dependencies[i])
  ELSE checkDependencies(db, taskId, dependencies, i + 1)

\* fault: the checks of the fields alone, the dependencies never looked at
validateTaskInput_ignoringDependencies(db, taskInput) ==
  IF taskInput.id = EmptyId THEN Invalid(ErrId, EmptyId)
  ELSE IF taskInput.type = "" THEN Invalid(ErrType, EmptyId)
  ELSE IF taskInput.duration_ms < 0 THEN Invalid(ErrDuration, EmptyId)
  ELSE IF hasTask(db, taskInput.id) THEN Invalid(ErrExists, taskInput.id)
  ELSE IF ~taskInput.deps_is_array THEN Invalid(ErrNotArray, EmptyId)
  ELSE Valid

\* TaskValidator.validateTaskInput
validateTaskInput(db, taskInput) ==
  IF taskInput.id = EmptyId THEN Invalid(ErrId, EmptyId)
  ELSE IF taskInput.type = "" THEN Invalid(ErrType, EmptyId)
  ELSE IF taskInput.duration_ms < 0 THEN Invalid(ErrDuration, EmptyId)
  ELSE IF hasTask(db, taskInput.id) THEN Invalid(ErrExists, taskInput.id)
  ELSE IF ~taskInput.deps_is_array THEN Invalid(ErrNotArray, EmptyId)
  ELSE LET deps == checkDependencies(db, taskInput.id,
                                     taskInput.dependencies, 1)
       IN IF ~deps.valid THEN deps
          ELSE detectCycle(db, taskInput.id, taskInput.dependencies)

\* fault: WAITING whenever a dependency is listed
initialStatus_waitingOnAny(db, dependencies) ==
  IF Len(dependencies) = 0 THEN QUEUED ELSE WAITING

\* fault: `some` for `every`
initialStatus_someCompleted(db, dependencies) ==
  IF Len(dependencies) = 0 THEN QUEUED
  ELSE IF \E i \in 1..Len(dependencies) :
            dependencies[i] \in completedTaskIds(db)
    THEN QUEUED
  ELSE WAITING

\* the initial status createTask computes
initialStatus(db, dependencies) ==
  IF Len(dependencies) = 0 THEN QUEUED
  ELSE IF \A i \in 1..Len(dependencies) :
            dependencies[i] \in completedTaskIds(db)
    THEN QUEUED
  ELSE WAITING

\* TaskValidator.createTask
createTask(db, taskInput, time) ==
  [id |-> taskInput.id,
   type |-> taskInput.type,
   duration_ms |-> taskInput.duration_ms,
   dependencies |-> taskInput.dependencies,
   status |-> initialStatus(db, taskInput.dependencies),
   created_at |-> time]

\* =========================================================== POST /tasks
\* the handler of POST /tasks: the response and the store it leaves
postTasks(db, taskInput, time) ==
  LET validation == validateTaskInput(db, taskInput)
      ins == insertTask(db, createTask(db, taskInput, time))
  IN IF ~validation.valid
       THEN [response |-> [status |-> 400, error |-> validation.error,
                           dep |-> validation.dep],
             db |-> db]
     ELSE IF ~ins.inserted
       THEN [response |-> [status |-> 409, error |-> ErrExists,
                           dep |-> taskInput.id],
             db |-> db]
     ELSE [response |-> [status |-> 201, error |-> "", dep |-> EmptyId],
           db |-> ins.db]

\* ========================================================== the executor
\* the executor's view while one callback runs: the store, runningTasks and
\* the executeTask calls suspended in `await this.sleep(...)`
execState(db, running, suspended) ==
  [db |-> db, running |-> running, executing |-> suspended]

\* fault: a successful claim without `this.runningTasks.add(task.id)`
executeTask_untracked(st, taskId, time) ==
  IF ~hasTask(st.db, taskId) THEN st
  ELSE LET claim == updateTaskStatus(st.db, taskId, RUNNING,
                                     getTaskWithVersion(st.db, taskId),
                                     [started_at |-> time])
       IN IF ~claim.claimed THEN st
          ELSE execState(claim.db,
                         st.running,
                         [st.executing EXCEPT ![taskId] = @ + 1])

\* TaskExecutor.executeTask up to its first await: read the version, claim
\* with it, and on success enter runningTasks and start sleeping
executeTask(st, taskId, time) ==
  IF ~hasTask(st.db, taskId) THEN st
  ELSE LET claim == updateTaskStatus(st.db, taskId, RUNNING,
                                     getTaskWithVersion(st.db, taskId),
                                     [started_at |-> time])
       IN IF ~claim.claimed THEN st
          ELSE execState(claim.db,
                         st.running \cup {taskId},
                         [st.executing EXCEPT ![taskId] = @ + 1])

\* the `for (const task of tasksToExecute)` loop, from index i
RECURSIVE executeTasks(_, _, _, _)
executeTasks(st, tasksToExecute, i, time) ==
  IF i > Len(tasksToExecute) THEN st
  ELSE Const(executeTask(st, tasksToExecute[i].id, time),
             LAMBDA next : executeTasks(next, tasksToExecute, i + 1, time))

\* readyTasks.sort((a, b) => a.created_at - b.created_at): a stable sort
RECURSIVE sortByCreatedAt(_)
sortByCreatedAt(s) ==
  IF Len(s) <= 1 THEN s
  ELSE Const(sortByCreatedAt(SubSeq(s, 1, Len(s) - 1)),
             LAMBDA rest :
               LET last == s[Len(s)]
                   keep == Cardinality({i \in 1..Len(rest) :
                                          rest[i].created_at <= last.created_at})
               IN SubSeq(rest, 1, keep) \o <<last>>
                    \o SubSeq(rest, keep + 1, Len(rest)))

\* the free slots of one pass
availableSlots(running) == maxConcurrentTasks - Cardinality(running)

\* fault: no slice(0, availableSlots)
tasksToExecute_unsliced(db, running) == sortByCreatedAt(getReadyTasks(db))

\* the tasks one pass hands to executeTask
tasksToExecute(db, running) ==
  Const(getReadyTasks(db),
        LAMBDA readyTasks :
          Const(sortByCreatedAt(readyTasks),
                LAMBDA sorted : Take(sorted, availableSlots(running))))

\* fault: no `if (!this.isRunning) return`
scheduleNextTasks_ignoringStop(st, running, time) ==
  IF availableSlots(st.running) <= 0 THEN st
  ELSE IF Len(getReadyTasks(st.db)) = 0 THEN st
  ELSE executeTasks(st, tasksToExecute(st.db, st.running), 1, time)

\* TaskExecutor.scheduleNextTasks
scheduleNextTasks(st, running, time) ==
  IF ~running THEN st
  ELSE IF availableSlots(st.running) <= 0 THEN st
  ELSE IF Len(getReadyTasks(st.db)) = 0 THEN st
  ELSE Const(tasksToExecute(st.db, st.running),
             LAMBDA chosen : executeTasks(st, chosen, 1, time))

\* the write recoverOrphanedTasks makes for one orphaned task: `started_at:
\* undefined` is no field of the update, so only status and error are set
recoverTask(db, taskId) ==
  IF ~hasTask(db, taskId) THEN db
  ELSE updateTaskStatus(db, taskId, QUEUED, getTaskWithVersion(db, taskId),
                        [error |-> InterruptedError]).db

\* the `for (const task of orphanedTasks)` loop, from index i
RECURSIVE recoverTasks(_, _, _)
recoverTasks(db, orphanedTasks, i) ==
  IF i > Len(orphanedTasks) THEN db
  ELSE recoverTasks(recoverTask(db, orphanedTasks[i].id), orphanedTasks, i + 1)

\* fault: recovery that resets nothing
recoverOrphanedTasks_skipped(db) == db

\* TaskExecutor.recoverOrphanedTasks
recoverOrphanedTasks(db) == recoverTasks(db, getOrphanedTasks(db), 1)

\* the terminal write of executeTask after the sleep: COMPLETED from the try
\* block, FAILED with the error message from the catch block
terminalWrite(db, taskId, ok, time) ==
  IF ~hasTask(db, taskId) THEN db
  ELSE IF ok
    THEN updateTaskStatus(db, taskId, COMPLETED,
                          getTaskWithVersion(db, taskId),
                          [completed_at |-> time]).db
  ELSE updateTaskStatus(db, taskId, FAILED,
                        getTaskWithVersion(db, taskId),
                        [completed_at |-> time, error |-> RunnerError]).db

\* ============================================================ the actions
NoRead == [id |-> EmptyId, version |-> 0]

NoUpdates == [field \in {} |-> NoTime]

NoCall == [actor |-> 0, id |-> EmptyId, version |-> 0, newStatus |-> "",
           updates |-> NoUpdates, claimed |-> FALSE]

NoRequest == [id |-> EmptyId]

NoResponse == [status |-> 0, error |-> "", dep |-> EmptyId]

ExecutorInit ==
  /\ isRunning = FALSE
  /\ schedulerInterval = FALSE
  /\ runningTasks = {}
  /\ executing = [id \in Ids |-> 0]
  /\ immediates = 0

Init ==
  /\ tasks = <<>>
  /\ ExecutorInit
  /\ now = 1
  /\ starts = 0
  /\ held = [a \in Actors |-> NoRead]
  /\ lastCall = NoCall
  /\ won = [id \in Ids |-> [v \in 0..MaxVersion |-> 0]]
  /\ request = NoRequest
  /\ response = NoResponse
  /\ stopped = FALSE

\* POST /tasks with body taskInput
Submit(taskInput) ==
  /\ tasks' = postTasks(tasks, taskInput, now).db
  /\ UNCHANGED <<isRunning, schedulerInterval, runningTasks, executing,
                 immediates, now, starts, held, lastCall, won,
                 request, response,
                 stopped>>

\* TaskExecutor.start: recovery, the interval timer, then one pass
Start ==
  /\ ~isRunning
  /\ starts < MaxStarts
  /\ starts' = starts + 1
  /\ isRunning' = TRUE
  /\ schedulerInterval' = TRUE
  /\ \E st \in {scheduleNextTasks(
                   execState(recoverOrphanedTasks(tasks), runningTasks,
                             executing),
                   TRUE, now)} :
       /\ tasks' = st.db
       /\ runningTasks' = st.running
       /\ executing' = st.executing
  /\ UNCHANGED <<immediates, now, held, lastCall, won,
                 request, response,
                 stopped>>

\* TaskExecutor.stop
Stop ==
  /\ isRunning
  /\ isRunning' = FALSE
  /\ schedulerInterval' = FALSE
  /\ stopped' = TRUE
  /\ UNCHANGED <<tasks, runningTasks, executing, immediates, now, starts,
                 held, lastCall, won,
                 request, response>>

\* the setInterval callback
Tick ==
  /\ schedulerInterval
  /\ \E st \in {scheduleNextTasks(execState(tasks, runningTasks, executing),
                                   isRunning, now)} :
       /\ tasks' = st.db
       /\ runningTasks' = st.running
       /\ executing' = st.executing
  /\ UNCHANGED <<isRunning, schedulerInterval, immediates, now, starts,
                 held, lastCall, won,
                 request, response,
                 stopped>>

\* a setImmediate callback queued by a finished executeTask
Immediate ==
  /\ immediates > 0
  /\ immediates' = immediates - 1
  /\ \E st \in {scheduleNextTasks(execState(tasks, runningTasks, executing),
                                   isRunning, now)} :
       /\ tasks' = st.db
       /\ runningTasks' = st.running
       /\ executing' = st.executing
  /\ UNCHANGED <<isRunning, schedulerInterval, now, starts, held,
                 lastCall, won,
                 request, response,
                 stopped>>

\* fault: the finally block without `this.runningTasks.delete(task.id)`
RunnerDone_keepingSlot(taskId, ok) ==
  /\ executing[taskId] > 0
  /\ tasks' = terminalWrite(tasks, taskId, ok, now)
  /\ executing' = [executing EXCEPT ![taskId] = @ - 1]
  /\ immediates' = immediates + 1
  /\ UNCHANGED <<isRunning, schedulerInterval, runningTasks, now, starts,
                 held, lastCall, won, request, response,
                 stopped>>

\* an executeTask call resumes after its sleep: the try block finishes (ok)
\* or throws (~ok); then the finally block
RunnerDone(taskId, ok) ==
  /\ executing[taskId] > 0
  /\ tasks' = terminalWrite(tasks, taskId, ok, now)
  /\ runningTasks' = runningTasks \ {taskId}
  /\ executing' = [executing EXCEPT ![taskId] = @ - 1]
  /\ immediates' = immediates + 1
  /\ UNCHANGED <<isRunning, schedulerInterval, now, starts, held,
                 lastCall, won,
                 request, response,
                 stopped>>

\* the process dies and a new one constructs its TaskExecutor over the same
\* database file: timers, runners and runningTasks are gone, the rows stay
Crash ==
  /\ isRunning' = FALSE
  /\ schedulerInterval' = FALSE
  /\ runningTasks' = {}
  /\ executing' = [id \in Ids |-> 0]
  /\ immediates' = 0
  /\ stopped' = FALSE
  /\ UNCHANGED <<tasks, now, starts, held, lastCall, won,
                 request, response>>

Next ==
  \/ \E taskInput \in SubmitInputs : Submit(taskInput)
  \/ Start
  \/ Stop
  \/ Tick
  \/ Immediate
  \/ \E taskId \in Ids, ok \in BOOLEAN : RunnerDone(taskId, ok)
  \/ Crash

Spec == Init /\ [][Next]_vars

\* ================================================ the executor left running
\* The executor is started and never stopped, the process lives, and every
\* runner finishes its try block. The interval timer fires every 100 ms, a
\* setImmediate callback runs in the next turn of the event loop, and every
\* sleep ends: each is weakly fair.
LiveNext ==
  \/ \E taskInput \in SubmitInputs : Submit(taskInput)
  \/ Start
  \/ Tick
  \/ Immediate
  \/ \E taskId \in Ids : RunnerDone(taskId, TRUE)

LiveSpec ==
  /\ Init
  /\ [][LiveNext]_vars
  /\ WF_vars(Tick)
  /\ WF_vars(Immediate)
  /\ \A taskId \in Ids : WF_vars(RunnerDone(taskId, TRUE))

\* ===================================================== submissions alone
\* The handler runs to completion, one request at a time; its body and its
\* response are recorded until the response has gone out.

\* POST /tasks with any body, well-formed or not
Post(taskInput) ==
  /\ response = NoResponse
  /\ tasks' = postTasks(tasks, taskInput, now).db
  /\ request' = taskInput
  /\ response' = postTasks(tasks, taskInput, now).response
  /\ UNCHANGED <<isRunning, schedulerInterval, runningTasks, executing,
                 immediates, now, starts, held, lastCall, won,
                 stopped>>

\* the response has gone out: the handler has returned
Reply ==
  /\ response # NoResponse
  /\ request' = NoRequest
  /\ response' = NoResponse
  /\ UNCHANGED <<tasks, isRunning, schedulerInterval, runningTasks, executing,
                 immediates, now, starts, held, lastCall, won,
                 stopped>>

SubmitNext ==
  \/ \E taskInput \in PostInputs : Post(taskInput)
  \/ Reply

SubmitSpec == Init /\ [][SubmitNext]_vars

\* ====================================================== the store alone
\* Clients of DatabaseManager, each reading a version with getTaskWithVersion
\* and later calling updateTaskStatus with it; better-sqlite3 runs every
\* statement to completion, so a call is one step.

\* the rows a client inserts, into the first MaxRows ids
StoreTasks ==
  [id : 1..MaxRows, type : {"X"}, duration_ms : {0}, dependencies : {<<>>},
   status : {QUEUED, WAITING}, created_at : {0}]

\* the updateTaskStatus calls: the four the executor makes, one that sets
\* retry_count, one with no updates
StoreCalls(time) ==
  {[newStatus |-> RUNNING, updates |-> [started_at |-> time]],
   [newStatus |-> COMPLETED, updates |-> [completed_at |-> time]],
   [newStatus |-> FAILED,
    updates |-> [completed_at |-> time, error |-> RunnerError]],
   [newStatus |-> QUEUED, updates |-> [error |-> InterruptedError]],
   [newStatus |-> QUEUED, updates |-> [retry_count |-> 1]],
   [newStatus |-> WAITING, updates |-> NoUpdates]}

\* DatabaseManager.insertTask by a client
StoreInsert(task) ==
  /\ tasks' = insertTask(tasks, [task EXCEPT !.created_at = now]).db
  /\ UNCHANGED <<isRunning, schedulerInterval, runningTasks, executing,
                 immediates, now, starts, held, lastCall, won,
                 request, response,
                 stopped>>

\* DatabaseManager.getTaskWithVersion by client a
StoreRead(a, taskId) ==
  /\ held' = [held EXCEPT ![a] =
                IF hasTask(tasks, taskId)
                  THEN [id |-> taskId,
                        version |-> getTaskWithVersion(tasks, taskId)]
                  ELSE NoRead]
  /\ UNCHANGED <<tasks, isRunning, schedulerInterval, runningTasks, executing,
                 immediates, now, starts, lastCall, won,
                 request, response,
                 stopped>>

\* DatabaseManager.updateTaskStatus by client a, with the version it read
StoreUpdate(a, call) ==
  /\ held[a] # NoRead
  /\ tasks[held[a].id].version < MaxVersion
  /\ LET u == updateTaskStatus(tasks, held[a].id, call.newStatus,
                               held[a].version, call.updates)
     IN /\ tasks' = u.db
        /\ held' = [held EXCEPT ![a] = NoRead]
        /\ lastCall' = [actor |-> a, id |-> held[a].id,
                        version |-> held[a].version,
                        newStatus |-> call.newStatus,
                        updates |-> call.updates, claimed |-> u.claimed]
        /\ won' = IF u.claimed
                    THEN [won EXCEPT ![held[a].id][held[a].version] = @ + 1]
                    ELSE won
  /\ UNCHANGED <<isRunning, schedulerInterval, runningTasks, executing,
                 immediates, now, starts,
                 request, response,
                 stopped>>

StoreNext ==
  \/ \E task \in StoreTasks : StoreInsert(task)
  \/ \E a \in Actors, taskId \in Ids : StoreRead(a, taskId)
  \/ \E a \in Actors : \E call \in StoreCalls(now) : StoreUpdate(a, call)

StoreSpec == Init /\ [][StoreNext]_vars

\* ===================================================== insertion alone
\* A client of DatabaseManager that inserts any task, stored id or not, and
\* claims rows as executeTask does; the result of insertTask is recorded
\* until the call has returned.

\* the tasks the client inserts, into the first MaxRows ids
InsertTasks ==
  [id : 1..MaxRows, type : {"X", "Y"}, duration_ms : {0},
   dependencies : {<<>>}, status : {QUEUED, WAITING}, created_at : {0}]

\* DatabaseManager.insertTask
Insert(task) ==
  /\ response = NoResponse
  /\ LET r == insertTask(tasks, [task EXCEPT !.created_at = now])
     IN /\ tasks' = r.db
        /\ request' = [task EXCEPT !.created_at = now]
        /\ response' = [inserted |-> r.inserted]
  /\ UNCHANGED <<isRunning, schedulerInterval, runningTasks, executing,
                 immediates, now, starts, held, lastCall, won,
                 stopped>>

\* getTaskWithVersion, then updateTaskStatus to RUNNING with that version
Touch(taskId) ==
  /\ response = NoResponse
  /\ hasTask(tasks, taskId)
  /\ getTaskWithVersion(tasks, taskId) < MaxVersion
  /\ tasks' = updateTaskStatus(tasks, taskId, RUNNING,
                               getTaskWithVersion(tasks, taskId),
                               [started_at |-> now]).db
  /\ UNCHANGED <<isRunning, schedulerInterval, runningTasks, executing,
                 immediates, now, starts, held, lastCall, won,
                 request, response,
                 stopped>>

InsertNext ==
  \/ \E task \in InsertTasks : Insert(task)
  \/ \E taskId \in Ids : Touch(taskId)
  \/ Reply

InsertSpec == Init /\ [][InsertNext]_vars

\* ========================================================== properties
Terminal == {COMPLETED, FAILED}

RunningRows == {id \in Stored : tasks[id].status = RUNNING}

\* this step wrote RUNNING to row id: a claim (the last write of the step, as
\* start() may reset and claim a row again in one call)
Claimed(id) ==
  /\ id \in Stored
  /\ tasks'[id].status = RUNNING
  /\ tasks'[id].version > tasks[id].version

\* this step made a terminal write to row id
TerminalWritten(id) ==
  /\ id \in Stored
  /\ tasks'[id].status \in Terminal
  /\ tasks'[id].version > tasks[id].version

\* C1: runningTasks never holds more than maxConcurrentTasks ids
C1_InFlightBounded == Cardinality(runningTasks) <= maxConcurrentTasks

\* every slot is taken while a ready task waits
C1_Witness ==
  /\ isRunning
  /\ Cardinality(runningTasks) = maxConcurrentTasks
  /\ Len(getReadyTasks(tasks)) > 0

\* C2: the number of rows whose status is RUNNING never exceeds
\* maxConcurrentTasks
C2_RunningBounded == Cardinality(RunningRows) <= maxConcurrentTasks

\* after a crash the rows still RUNNING fill every slot, and a third task is
\* ready
C2_Witness ==
  /\ ~isRunning
  /\ runningTasks = {}
  /\ Cardinality(RunningRows) = maxConcurrentTasks
  /\ Len(getReadyTasks(tasks)) > 0

\* C3: whenever a row is claimed into RUNNING, every dependency of it is a
\* stored row whose status is COMPLETED, before and after the claim
C3_DependenciesCompleted ==
  [][\A id \in Stored :
       Claimed(id) =>
         \A d \in Range(tasks[id].dependencies) :
           /\ d \in Stored
           /\ tasks[d].status = COMPLETED
           /\ tasks'[d].status = COMPLETED]_vars

\* a task with two dependencies is RUNNING
C3_Witness ==
  \E id \in Stored :
    /\ tasks[id].status = RUNNING
    /\ Len(tasks[id].dependencies) = 2

\* C4: each id goes through claim-then-terminal-write at most once: no row
\* that already holds a terminal status receives a terminal write again
C4_OneTerminalWrite ==
  [][\A id \in Stored :
       TerminalWritten(id) => tasks[id].status \notin Terminal]_vars

\* C5: a row whose status is COMPLETED or FAILED keeps that status
C5_TerminalAbsorbing ==
  [][\A id \in Stored :
       tasks[id].status \in Terminal =>
         tasks'[id].status = tasks[id].status]_vars

\* the ids reached from the ids of S along at most n dependency edges
RECURSIVE reached(_, _, _)
reached(db, S, n) ==
  IF n = 0 THEN S
  ELSE reached(db,
               S \cup UNION {Range(db[id].dependencies) : id \in S \cap DOMAIN db},
               n - 1)

\* C6: no stored task reaches itself along dependency edges
C6_Acyclic ==
  \A id \in Stored :
    id \notin reached(tasks, Range(tasks[id].dependencies), MaxTasks)

\* a chain of three tasks is stored
C6_Witness ==
  \E a, b, c \in Stored :
    /\ a \in Range(tasks[b].dependencies)
    /\ b \in Range(tasks[c].dependencies)

\* the row a matching updateTaskStatus call must leave
updatedRow(row, call) ==
  [id |-> row.id,
   type |-> row.type,
   duration_ms |-> row.duration_ms,
   dependencies |-> row.dependencies,
   status |-> call.newStatus,
   created_at |-> row.created_at,
   started_at |-> IF "started_at" \in DOMAIN call.updates
                    THEN call.updates.started_at ELSE row.started_at,
   completed_at |-> IF "completed_at" \in DOMAIN call.updates
                      THEN call.updates.completed_at ELSE row.completed_at,
   error |-> IF "error" \in DOMAIN call.updates
               THEN call.updates.error ELSE row.error,
   retry_count |-> IF "retry_count" \in DOMAIN call.updates
                     THEN call.updates.retry_count ELSE row.retry_count,
   version |-> row.version + 1,
   rowid |-> row.rowid]

\* C7: an updateTaskStatus call writes iff the stored version equals the
\* expected one: then it returns claimed and leaves the row with the new
\* status, the supplied fields and version + 1, every other row as it was;
\* otherwise it returns stale and leaves the store as it was. A row is
\* inserted with version 0 and its version never decreases
C7_VersionGatedWrite ==
  [][/\ lastCall' # lastCall =>
          IF tasks[lastCall'.id].version = lastCall'.version
            THEN /\ lastCall'.claimed
                 /\ tasks' = [tasks EXCEPT ![lastCall'.id] =
                                updatedRow(@, lastCall')]
            ELSE /\ ~lastCall'.claimed
                 /\ tasks' = tasks
     /\ \A id \in DOMAIN tasks' :
          IF id \in Stored
            THEN tasks'[id].version >= tasks[id].version
            ELSE tasks'[id].version = 0]_vars

\* a call with a stale version left a row that an earlier call had written,
\* retry_count among its fields
C7_Witness ==
  /\ lastCall # NoCall
  /\ ~lastCall.claimed
  /\ tasks[lastCall.id].version = 1
  /\ tasks[lastCall.id].retry_count = 1

\* C8: of the updateTaskStatus calls made for one id with one version read
\* from the store, exactly one returns claimed: when two clients read the
\* same version and both call, one is claimed and the other stale
C8_OneClaimPerVersion ==
  lastCall # NoCall => won[lastCall.id][lastCall.version] = 1

\* the second of two clients that read the same version returns stale
C8_Witness ==
  /\ lastCall # NoCall
  /\ ~lastCall.claimed
  /\ won[lastCall.id][lastCall.version] = 1
  /\ tasks[lastCall.id].version = lastCall.version + 1

\* C9: when start() runs in a fresh process over rows left RUNNING, its
\* recovery leaves each of them QUEUED, with started_at unset and the
\* interruption marker as error
C9_RecoveryResets ==
  [][(~isRunning /\ isRunning' /\ runningTasks = {}) =>
       \A id \in RunningRows :
         /\ recoverOrphanedTasks(tasks)[id].status = QUEUED
         /\ recoverOrphanedTasks(tasks)[id].started_at = NoTime
         /\ recoverOrphanedTasks(tasks)[id].error = InterruptedError]_vars

\* C10: an accepted task starts QUEUED when every dependency it lists is
\* COMPLETED in the store it was submitted to (none listed included), and
\* WAITING otherwise
C10_InitialStatus ==
  [][\A id \in DOMAIN tasks' \ Stored :
       tasks'[id].status =
         IF \A d \in Range(tasks'[id].dependencies) :
              d \in Stored /\ tasks[d].status = COMPLETED
           THEN QUEUED
           ELSE WAITING]_vars

\* a task accepted as QUEUED on two COMPLETED dependencies, not yet claimed
C10_Witness ==
  \E id \in Stored :
    /\ tasks[id].status = QUEUED
    /\ tasks[id].version = 0
    /\ Len(tasks[id].dependencies) = 2
    /\ \A d \in Range(tasks[id].dependencies) : tasks[d].status = COMPLETED

\* this step made a recorded call
Recorded == response = NoResponse /\ response' # NoResponse

\* the reason of the lowest-numbered failing check when each of the checks
\* (5) every element a non-empty string, (6) no element the task's own id,
\* (7) every element stored, looks at the whole dependency list in turn
reasonByCheck(db, taskInput) ==
  LET deps == Range(taskInput.dependencies)
  IN IF taskInput.id = EmptyId THEN ErrId
     ELSE IF taskInput.type = "" THEN ErrType
     ELSE IF taskInput.duration_ms < 0 THEN ErrDuration
     ELSE IF taskInput.id \in DOMAIN db THEN ErrExists
     ELSE IF ~taskInput.deps_is_array THEN ErrNotArray
     ELSE IF EmptyId \in deps THEN ErrDepId
     ELSE IF taskInput.id \in deps THEN ErrSelf
     ELSE IF deps \ DOMAIN db # {} THEN ErrMissing
     ELSE IF taskInput.id \in reached(db, deps, MaxTasks) THEN ErrCycle
     ELSE ""

\* the indices of the dependency elements that fail one of the checks (5),
\* (6), (7)
badElements(db, taskInput) ==
  {i \in 1..Len(taskInput.dependencies) :
     \/ taskInput.dependencies[i] = EmptyId
     \/ taskInput.dependencies[i] = taskInput.id
     \/ taskInput.dependencies[i] \notin DOMAIN db}

\* the reason when the checks (5), (6), (7) are made element by element in
\* list order: the first failing check of the first failing element
reasonByElement(db, taskInput) ==
  LET bad == badElements(db, taskInput)
      first == CHOOSE i \in bad : \A j \in bad : i <= j
      d == taskInput.dependencies[first]
  IN IF taskInput.id = EmptyId THEN ErrId
     ELSE IF taskInput.type = "" THEN ErrType
     ELSE IF taskInput.duration_ms < 0 THEN ErrDuration
     ELSE IF taskInput.id \in DOMAIN db THEN ErrExists
     ELSE IF ~taskInput.deps_is_array THEN ErrNotArray
     ELSE IF bad # {}
       THEN IF d = EmptyId THEN ErrDepId
            ELSE IF d = taskInput.id THEN ErrSelf
            ELSE ErrMissing
     ELSE IF taskInput.id
               \in reached(db, Range(taskInput.dependencies), MaxTasks)
       THEN ErrCycle
     ELSE ""

UniqueIds(db) ==
  /\ \A id \in DOMAIN db : db[id].id = id
  /\ \A a, b \in DOMAIN db : a # b => db[a].rowid # db[b].rowid

C13_DuplicateConflict ==
  [][(/\ Recorded
      /\ request'.id \in Stored
      /\ request'.type # ""
      /\ request'.duration_ms >= 0) =>
       /\ response'.status = 409
       /\ tasks' = tasks]_vars

\* C14: a submission that names a dependency id not in the store is rejected
\* and leaves the store as it was; so every id in a stored task's
\* dependencies is the id of a stored task inserted before it
C14_DependenciesExist ==
  [][/\ (Recorded /\ Range(request'.dependencies) \ Stored # {}) =>
          /\ response'.status = 400
          /\ tasks' = tasks
     /\ \A id \in DOMAIN tasks' :
          \A d \in Range(tasks'[id].dependencies) :
            /\ d \in DOMAIN tasks'
            /\ tasks'[d].rowid < tasks'[id].rowid]_vars

\* a submission was rejected for a missing dependency listed after a stored
\* one
C14_Witness ==
  /\ response.status = 400
  /\ response.error = ErrMissing
  /\ Len(request.dependencies) = 2
  /\ request.dependencies[1] \in Stored

\* the store a scheduling pass of this step reads: start() runs its recovery
\* before its pass
passStore ==
  IF ~isRunning /\ isRunning' THEN recoverOrphanedTasks(tasks) ELSE tasks

readyIds(db) == {id \in DOMAIN db : isReady(db, db[id])}

\* the first `free` ready ids by created_at, equal created_at by id
firstByCreatedAtThenId(db, free) ==
  {id \in readyIds(db) :
     Cardinality({q \in readyIds(db) :
                    \/ db[q].created_at < db[id].created_at
                    \/ /\ db[q].created_at = db[id].created_at
                       /\ q < id}) < free}

\* C15: the tasks a scheduling pass claims are the first `free` ready tasks
\* in ascending created_at order, equal created_at in ascending id order
C15_FifoThenId ==
  [][(\E id \in Stored : Claimed(id)) =>
       {id \in Stored : Claimed(id)} =
         firstByCreatedAtThenId(passStore,
                                maxConcurrentTasks - Cardinality(runningTasks))
    ]_vars

\* this step is the end of an executeTask call of taskId: its finally block
\* queued a scheduling pass
RunnerFinished(taskId) ==
  /\ executing'[taskId] = executing[taskId] - 1
  /\ immediates' = immediates + 1

\* C16: while the executor is stopped and stays stopped, no row's status
\* becomes RUNNING, whichever callback runs (the pass a finished runner
\* queued included), and a runner that finishes makes its terminal write and
\* leaves runningTasks
C16_StopHaltsClaims ==
  [][(~isRunning /\ ~isRunning') =>
       /\ \A id \in Stored :
            tasks'[id].status = RUNNING => tasks[id].status = RUNNING
       /\ \A id \in Ids :
            RunnerFinished(id) =>
              /\ tasks'[id].status \in Terminal
              /\ tasks'[id].version = tasks[id].version + 1
              /\ id \notin runningTasks']_vars

\* stopped with a runner in flight, a free slot, a ready task and a pass
\* queued by a runner that finished
C16_Witness ==
  /\ ~isRunning
  /\ \E id \in runningTasks : executing[id] > 0
  /\ Cardinality(runningTasks) < maxConcurrentTasks
  /\ Len(getReadyTasks(tasks)) > 0
  /\ immediates > 0

C18_WaitingHasOpenDependency ==
  \A id \in Stored :
    tasks[id].status = WAITING =>
      \E d \in Range(tasks[id].dependencies) : tasks[d].status # COMPLETED

\* C18 as amended: a row is WAITING only from its insertion, and when it was
\* inserted it had a dependency whose status was not COMPLETED; no write ever
\* sets WAITING afterwards, and a WAITING row stays WAITING until it is claimed
C18_WaitingFromInsertion ==
  [][\A id \in DOMAIN tasks' :
       IF id \in Stored
         THEN /\ tasks'[id].status = WAITING => tasks[id].status = WAITING
              /\ tasks[id].status = WAITING =>
                   tasks'[id].status \in {WAITING, RUNNING}
         ELSE tasks'[id].status = WAITING =>
                \E d \in Range(tasks'[id].dependencies) :
                  tasks[d].status # COMPLETED]_vars

\* a WAITING row whose dependencies have all become COMPLETED since
C18_Witness ==
  \E id \in Stored :
    /\ tasks[id].status = WAITING
    /\ Len(tasks[id].dependencies) = 2
    /\ \A d \in Range(tasks[id].dependencies) : tasks[d].status = COMPLETED

\* C19: with the executor started and never stopped, every runner finishing
\* without failure, and ticks, queued passes and runner completions fair,
\* every stored task eventually is COMPLETED, and a task becomes COMPLETED
\* only when every dependency of it is COMPLETED already
C19_NoTaskLost ==
  /\ \A id \in Ids :
       (id \in Stored /\ isRunning) ~>
         (id \in Stored /\ tasks[id].status = COMPLETED)
  /\ [][\A id \in Stored :
          (tasks'[id].status = COMPLETED /\ tasks[id].status # COMPLETED) =>
            \A d \in Range(tasks[id].dependencies) :
              tasks[d].status = COMPLETED]_vars

\* a chain of three tasks, the last inserted as WAITING behind tasks that
\* took both slots, has completed
C19_Witness ==
  /\ isRunning
  /\ runningTasks = {}
  /\ \E a, b, c \in Stored :
       /\ tasks[b].dependencies = <<a>>
       /\ tasks[c].dependencies = <<b>>
       /\ \A id \in {a, b, c} : tasks[id].status = COMPLETED

\* C20: recovery run twice in a row leaves the store that recovery run once
\* leaves: every field of every row, status, version, started_at and error
\* among them
C20_RecoveryIdempotent ==
  recoverOrphanedTasks(recoverOrphanedTasks(tasks)) =
    recoverOrphanedTasks(tasks)

\* a dead process left one row RUNNING that a claim, a recovery and a second
\* claim had written, beside a QUEUED row: recovery changes this store
C20_Witness ==
  /\ ~isRunning
  /\ runningTasks = {}
  /\ \E id \in RunningRows :
       /\ tasks[id].error = InterruptedError
       /\ tasks[id].version = 3
  /\ \E id \in Stored : tasks[id].status = QUEUED
  /\ recoverOrphanedTasks(tasks) # tasks

\* the five fields of a row that a submission supplies
submitted(row) ==
  [id |-> row.id,
   type |-> row.type,
   duration_ms |-> row.duration_ms,
   dependencies |-> row.dependencies,
   created_at |-> row.created_at]

\* C21: a stored task stays stored, and its id, type, duration_ms,
\* dependencies and created_at never change: a row enters the store with the
\* values of the submission that was accepted and the time of its acceptance,
\* and claims, terminal writes and recovery leave the five fields as they were
C21_SubmittedFieldsKept ==
  [][/\ \A id \in Stored :
          /\ id \in DOMAIN tasks'
          /\ submitted(tasks'[id]) = submitted(tasks[id])
     /\ \A id \in DOMAIN tasks' \ Stored :
          \A taskInput \in SubmitInputs :
            (/\ taskInput.id = id
             /\ tasks' = postTasks(tasks, taskInput, now).db) =>
              /\ DOMAIN tasks' = Stored \cup {id}
              /\ submitted(tasks'[id]) =
                   [id |-> taskInput.id,
                    type |-> taskInput.type,
                    duration_ms |-> taskInput.duration_ms,
                    dependencies |-> taskInput.dependencies,
                    created_at |-> now]]_vars

\* a task with two dependencies that was claimed, reset by the recovery of a
\* later start(), claimed again and failed
C21_Witness ==
  \E id \in Stored :
    /\ tasks[id].status = FAILED
    /\ tasks[id].version >= 4
    /\ Len(tasks[id].dependencies) = 2

\* this step is a pass queued by a finished runner, run while the executor
\* is running
QueuedPassRan ==
  /\ isRunning
  /\ isRunning'
  /\ immediates' = immediates - 1

\* this step is a periodic tick that claimed, in a running executor
TickClaimed ==
  /\ isRunning
  /\ isRunning'
  /\ immediates' = immediates
  /\ \E id \in Stored : Claimed(id)

\* the ids of the first n rows of a sequence of rows
firstIds(rows, n) == {rows[i].id : i \in 1..(IF n < Len(rows) THEN n ELSE Len(rows))}

\* what the finally block of a finished runner leaves: the terminal write
\* made, the id out of runningTasks, one pass queued
FinishedRunnerLeaves(id) ==
  /\ tasks'[id].status \in Terminal
  /\ tasks'[id].version = tasks[id].version + 1
  /\ id \notin runningTasks'
  /\ immediates' = immediates + 1

\* C22 as claimed: a runner that finishes, with success or failure, makes
\* its terminal write, leaves runningTasks and queues one pass; no periodic
\* tick claims while a queued pass is pending; and the queued pass, run in a
\* running executor with a ready task in the store, claims
C22_PassBeforeTick ==
  [][/\ \A id \in Ids : RunnerFinished(id) => FinishedRunnerLeaves(id)
     /\ immediates > 0 => ~TickClaimed
     /\ (QueuedPassRan /\ readyIds(tasks) # {}) =>
          \E id \in Stored : Claimed(id)]_vars

\* C22 as amended: a runner that finishes, with success or failure, makes
\* its terminal write, leaves runningTasks and queues one pass; the queued
\* pass, run in a running executor, claims the first ready tasks, as many as
\* there are free slots then, and nothing when no slot is free
C22_PassQueued ==
  [][/\ \A id \in Ids : RunnerFinished(id) => FinishedRunnerLeaves(id)
     /\ QueuedPassRan =>
          /\ {id \in Stored : Claimed(id)} =
               firstIds(getReadyTasks(tasks),
                        maxConcurrentTasks - Cardinality(runningTasks))
          /\ runningTasks' = runningTasks \cup {id \in Stored : Claimed(id)}]_vars

\* a runner has failed and left the slot it held; its pass is queued in a
\* running executor and a ready task is in the store
C22_Witness ==
  /\ isRunning
  /\ immediates > 0
  /\ Cardinality(runningTasks) < maxConcurrentTasks
  /\ readyIds(tasks) # {}
  /\ \E id \in Stored : tasks[id].status = FAILED /\ tasks[id].version = 2

\* the executor is in one run: started, and never stopped since the process
\* began
InOneRun == isRunning /\ ~stopped

\* C23: within one run of the executor, from the end of start() (its
\* recovery and first pass done) until a stop(), after every step
\* runningTasks is exactly the set of ids whose stored status is RUNNING
C23_InFlightIsRunning == InOneRun => runningTasks = RunningRows

\* a run that began over rows a dead process had left RUNNING: one of them
\* was reset by the recovery and is in flight again, beside a task that has
\* completed in this run
C23_Witness ==
  /\ InOneRun
  /\ \E id \in runningTasks :
       /\ tasks[id].error = InterruptedError
       /\ tasks[id].status = RUNNING
  /\ \E id \in Stored : tasks[id].status = COMPLETED /\ id \notin runningTasks
  /\ immediates > 0

\* the number of executeTask calls suspended in their sleep, over the ids of S
RECURSIVE runnersOf(_)
runnersOf(S) ==
  IF S = {} THEN 0
  ELSE LET id == CHOOSE x \in S : TRUE
       IN executing[id] + runnersOf(S \ {id})

\* C24: no id has two runners in progress, and the runners in progress are
\* never more than maxConcurrentTasks, whatever start(), stop(), start()
\* again, passes and runner completions have run
C24_OneRunnerPerTask ==
  /\ \A id \in Ids : executing[id] <= 1
  /\ runnersOf(Ids) <= maxConcurrentTasks

\* the body passes the checks (1) to (7): its fields are well-formed, its id
\* is not stored, and every dependency is a stored id other than its own
passesFieldAndDependencyChecks(db, taskInput) ==
  /\ taskInput.id # EmptyId
  /\ taskInput.type # ""
  /\ taskInput.duration_ms >= 0
  /\ taskInput.id \notin DOMAIN db
  /\ taskInput.deps_is_array
  /\ \A i \in 1..Len(taskInput.dependencies) :
       /\ taskInput.dependencies[i] # EmptyId
       /\ taskInput.dependencies[i] # taskInput.id
       /\ taskInput.dependencies[i] \in DOMAIN db

\* C25: the cycle check never rejects on its own: a submission that passes
\* the checks (1) to (7) passes the cycle check too and is accepted, and no
\* submission at all is answered with the cycle reason; no stored task
\* reaches an id that is not stored along dependency edges
C25_CycleCheckNeverRejects ==
  [][/\ Recorded =>
          /\ response'.error # ErrCycle
          /\ passesFieldAndDependencyChecks(tasks, request') =>
               /\ detectCycle(tasks, request'.id, request'.dependencies).valid
               /\ response'.status = 201
     /\ \A id \in Stored :
          reached(tasks, Range(tasks[id].dependencies), MaxTasks) \subseteq Stored
    ]_vars

\* a submission was accepted whose dependencies the search walked twice: it
\* lists a task twice that itself depends on a stored task
C25_Witness ==
  /\ response.status = 201
  /\ Len(request.dependencies) = 2
  /\ request.dependencies[1] = request.dependencies[2]
  /\ tasks[request.dependencies[1]].dependencies # <<>>

\* a dependency of the row has status FAILED
hasFailedDependency(db, id) ==
  \E d \in Range(db[id].dependencies) : d \in DOMAIN db /\ db[d].status = FAILED

\* C26: a task with a FAILED dependency is never claimed: it is not ready,
\* it is neither RUNNING nor terminal, no step changes its status, and its
\* dependency stays FAILED
C26_FailedDependencyBlocks ==
  [][\A id \in Stored :
       hasFailedDependency(tasks, id) =>
         /\ ~isReady(tasks, tasks[id])
         /\ ~Claimed(id)
         /\ tasks[id].status \in {QUEUED, WAITING}
         /\ tasks'[id].status = tasks[id].status
         /\ hasFailedDependency(tasks', id)]_vars

\* this step ran a scheduling pass in a running executor: the pass of
\* start(), a queued pass, or a tick (a pass that claims nothing and is not
\* the end of a queued callback leaves every variable as it was)
PassRan ==
  \/ ~isRunning /\ isRunning'
  \/ QueuedPassRan
  \/ isRunning /\ isRunning' /\ \E id \in Stored : Claimed(id)

Min(a, b) == IF a < b THEN a ELSE b

\* C27: after every scheduling pass of a running executor, runningTasks
\* holds maxConcurrentTasks ids or no ready task is left in the store, and
\* the pass has claimed min(free slots, ready tasks) tasks
C27_WorkConserving ==
  [][PassRan =>
       /\ \/ Cardinality(runningTasks') = maxConcurrentTasks
          \/ readyIds(tasks') = {}
       /\ Cardinality({id \in Stored : Claimed(id)}) =
            Min(maxConcurrentTasks - Cardinality(runningTasks),
                Cardinality(readyIds(passStore)))]_vars

====
